---- MODULE Spec2Model ----
(***************************************************************************)
(* Model of go-tpm-keyfiles: the "TSS2 PRIVATE KEY" ASN.1 decoder (Parse,  *)
(* parseTPMPolicy, parseTPMAuthPolicy), the key entity and its             *)
(* construction (NewTPMKey, AddOptions), public-key reconstruction         *)
(* (PublicKey, ecdsaPubKey, rsaPubKey) and the Signer / Verify adapters.   *)
(*                                                                         *)
(* DER is modelled at the level the decoder works at: a cryptobyte.String  *)
(* is a sequence of elements, each a tag with either primitive content (a  *)
(* sequence of numbers) or, for constructed tags, a sequence of elements.  *)
(* An element whose header announces more bytes than the buffer holds is   *)
(* marked bad: its tag can be peeked, reading it fails.                    *)
(***************************************************************************)
EXTENDS Integers, Sequences, FiniteSets, TLC

VARIABLES
    pc,        \* position of the scenario being run
    gen,       \* the content the input file was written from (codec scenario)
    input,     \* the bytes given to Parse: [armored, label, body]
    res,       \* what Parse returned: [err, key]
    out,       \* what Encode returned for res.key
    args,      \* the arguments of NewTPMKey: [oid, pubkey, privkey, fn]
    key,       \* the TPMKey under construction / constructed
    pubres,    \* what PublicKey returned
    vin,       \* the arguments of Verify: [hashed, sig]
    vres,      \* what Verify returned
    sres,      \* what Signer returned
    tpmCalls,  \* commands sent over the TPM transport
    authCalls  \* invocations of the owner-auth / auth providers

vars == <<pc, gen, input, res, out, args, key, pubres, vin, vres, sres,
          tpmCalls, authCalls>>

(***************************************************************************)
(* Bounds of the model.                                                    *)
(***************************************************************************)
MaxPolicies == 2       \* elements in a SEQUENCE OF TPMPolicy
MaxAuthPolicies == 2   \* elements in a SEQUENCE OF TPMAuthPolicy
MaxOptions == 2        \* caller options handed to NewTPMKey
MaxSignCalls == 2      \* Sign calls made on one signer handle

(***************************************************************************)
(* Object identifiers (part_001:14-30).                                    *)
(***************************************************************************)
OIDOldLoadableKey == <<2, 23, 133, 10, 2>>
OIDLoadableKey == <<2, 23, 133, 10, 1, 3>>
OIDImportbleKey == <<2, 23, 133, 10, 1, 4>>
OIDSealedKey == <<2, 23, 133, 10, 1, 5>>
\* an identifier under the same arc that names no key type
OIDUnknown == <<2, 23, 133, 10, 1, 6>>

RecognizedOIDs == {OIDLoadableKey, OIDImportbleKey, OIDSealedKey, OIDOldLoadableKey}

PEMType == "TSS2 PRIVATE KEY"

(***************************************************************************)
(* Elements of an encoding.                                                *)
(***************************************************************************)
Prim(t, bs) == [tag |-> t, bad |-> FALSE, prim |-> bs, kids |-> <<>>]
Cons(t, ks) == [tag |-> t, bad |-> FALSE, prim |-> <<>>, kids |-> ks]
Truncated(t) == [tag |-> t, bad |-> TRUE, prim |-> <<>>, kids |-> <<>>]
NilNode == Prim("NONE", <<>>)

(***************************************************************************)
(* cryptobyte.String readers.  Each returns whether it succeeded, what it  *)
(* read and the cursor after the read.                                     *)
(***************************************************************************)
PeekASN1Tag(s, tag) == Len(s) > 0 /\ Head(s).tag = tag

ReadASN1(s, tag) ==
    IF Len(s) > 0 /\ Head(s).tag = tag /\ ~Head(s).bad
    THEN [ok |-> TRUE, node |-> Head(s), rest |-> Tail(s)]
    ELSE [ok |-> FALSE, node |-> NilNode, rest |-> s]

ReadOptionalASN1(s, tag) ==
    IF PeekASN1Tag(s, tag)
    THEN LET r == ReadASN1(s, tag)
         IN  [ok |-> r.ok, present |-> TRUE, node |-> r.node, rest |-> r.rest]
    ELSE [ok |-> TRUE, present |-> FALSE, node |-> NilNode, rest |-> s]

\* a reader that takes every well-formed BOOLEAN for TRUE
ReadASN1BooleanPresentIsTrue(s) ==
    LET r == ReadASN1(s, "BOOLEAN")
        good == r.ok /\ Len(r.node.prim) = 1 /\ r.node.prim[1] \in {0, 255}
    IN  [ok |-> good, val |-> good, rest |-> r.rest]

\* DER BOOLEAN: one content byte, 0x00 or 0xFF
ReadASN1Boolean(s) ==
    LET r == ReadASN1(s, "BOOLEAN")
        good == r.ok /\ Len(r.node.prim) = 1 /\ r.node.prim[1] \in {0, 255}
    IN  [ok |-> good, val |-> good /\ r.node.prim[1] = 255, rest |-> r.rest]

\* INTEGER: the content is kept as the number it encodes; empty content is
\* not an integer
ReadASN1Integer(s) ==
    LET r == ReadASN1(s, "INTEGER")
        good == r.ok /\ Len(r.node.prim) = 1
    IN  [ok |-> good, val |-> IF good THEN r.node.prim[1] ELSE 0, rest |-> r.rest]

\* OBJECT IDENTIFIER: the content is kept as its arcs; at least two arcs
ReadASN1ObjectIdentifier(s) ==
    LET r == ReadASN1(s, "OID")
        good == r.ok /\ Len(r.node.prim) >= 2
    IN  [ok |-> good, val |-> IF good THEN r.node.prim ELSE <<>>, rest |-> r.rest]

\* utf8.Valid over the bytes the model uses: a byte below 0x80 is a
\* character of its own, 0xFF occurs in no well-formed sequence
Utf8Valid(bs) == \A i \in 1..Len(bs) : bs[i] < 128

(***************************************************************************)
(* The key entity (part_000:27-38; part_001:170-179 holds the fields the   *)
(* decoder fills).  ZeroKey is Go's zero value of the struct; a nil and an *)
(* empty slice are both the empty sequence (they have the same length and  *)
(* the same elements).                                                     *)
(***************************************************************************)
ZeroKey ==
    [keytype |-> <<>>, emptyAuth |-> FALSE, policy |-> <<>>, secret |-> <<>>,
     authPolicy |-> <<>>, description |-> <<>>, Parent |-> 0,
     Pubkey |-> <<>>, Privkey |-> <<>>, userAuth |-> <<>>]

\* what a function returning (value, error) hands back
Failed(e, s) == [err |-> e, val |-> <<>>, rest |-> s]
Done(v, s) == [err |-> "", val |-> v, rest |-> s]

(***************************************************************************)
(* unwrapPEM (part_001:37-48).                                             *)
(***************************************************************************)
unwrapPEM(p) ==
    IF ~p.armored THEN Failed("not an armored key", <<>>)
    ELSE IF p.label = PEMType THEN Done(p.body, <<>>)
    ELSE Failed("not a TSS2 PRIVATE KEY", <<>>)

(***************************************************************************)
(* parseTPMPolicy (part_001:55-104).  After the outer sequence is read, a  *)
(* single `if !policySequence.Empty()` reads one TPMPolicy; whatever       *)
(* follows it in the sequence is left unread.                              *)
(***************************************************************************)
parseTPMPolicy(der) ==
    LET opt == ReadOptionalASN1(der, "CTX1") IN
    IF ~opt.ok THEN Failed("should have policy, failed reading", opt.rest)
    ELSE IF ~opt.present THEN Done(<<>>, opt.rest)
    ELSE
    LET policySequence == ReadASN1(opt.node.kids, "SEQUENCE") IN
    IF ~policySequence.ok THEN Failed("malformed policy sequence", opt.rest)
    ELSE IF Len(policySequence.node.kids) = 0 THEN Done(<<>>, opt.rest)
    ELSE
    LET policyBytes == ReadASN1(policySequence.node.kids, "SEQUENCE") IN
    IF ~policyBytes.ok THEN Failed("malformed policy sequence", opt.rest)
    ELSE
    LET ccBytes == ReadASN1(policyBytes.node.kids, "CTX0") IN
    IF ~ccBytes.ok THEN Failed("strip tag from commandCode", opt.rest)
    ELSE
    LET cc == ReadASN1Integer(ccBytes.node.kids) IN
    IF ~cc.ok THEN Failed("malformed policy commandCode", opt.rest)
    ELSE
    LET cpBytes == ReadASN1(ccBytes.rest, "CTX1") IN
    IF ~cpBytes.ok THEN Failed("strip tag from commandPolicy", opt.rest)
    ELSE
    LET cp == ReadASN1(cpBytes.node.kids, "OCTET") IN
    IF ~cp.ok THEN Failed("malformed policy commandPolicy", opt.rest)
    ELSE Done(<<[commandCode |-> cc.val, commandPolicy |-> cp.node.prim]>>, opt.rest)

(***************************************************************************)
(* parseTPMAuthPolicy (part_001:111-168).  One `if` reads the first        *)
(* TPMAuthPolicy of the sequence and checks it; the function then ends in  *)
(* `return nil, nil`.                                                      *)
(***************************************************************************)
parseTPMAuthPolicy(der) ==
    LET opt == ReadOptionalASN1(der, "CTX3") IN
    IF ~opt.ok THEN Failed("should have authPolicy, failed reading", opt.rest)
    ELSE IF ~opt.present THEN Done(<<>>, opt.rest)
    ELSE
    LET authPolicySequence == ReadASN1(opt.node.kids, "SEQUENCE") IN
    IF ~authPolicySequence.ok THEN Failed("malformed auth policy sequence", opt.rest)
    ELSE IF Len(authPolicySequence.node.kids) = 0 THEN Done(<<>>, opt.rest)
    ELSE
    LET authPolicyBytes == ReadASN1(authPolicySequence.node.kids, "SEQUENCE") IN
    IF ~authPolicyBytes.ok THEN Failed("malformed auth policy sequence", opt.rest)
    ELSE
    LET name == ReadOptionalASN1(authPolicyBytes.node.kids, "CTX0") IN
    IF ~name.ok THEN Failed("strip tag from commandCode", opt.rest)
    ELSE
    LET nameB == ReadASN1(name.node.kids, "UTF8") IN
    IF name.present /\ ~nameB.ok
    THEN Failed("malformed utf8string in auth policy name", opt.rest)
    ELSE IF name.present /\ ~Utf8Valid(nameB.node.prim)
    THEN Failed("invalid utf8 bytes in name of auth policy", opt.rest)
    ELSE
    LET tpmpolicies == parseTPMPolicy(name.rest) IN
    IF tpmpolicies.err # ""
    THEN Failed("failed parsing tpm policies in auth policy", opt.rest)
    ELSE IF Len(tpmpolicies.val) = 0
    THEN Failed("tpm policies in auth policy is empty", opt.rest)
    ELSE Done(<<>>, opt.rest)

(***************************************************************************)
(* The key-type switch of Parse (part_001:208-219).                        *)
(***************************************************************************)
KnownKeyTypeNoLegacy(oid) ==
    oid \in {OIDLoadableKey, OIDImportbleKey, OIDSealedKey}

KnownKeyType(oid) ==
    \/ oid = OIDLoadableKey
    \/ oid = OIDImportbleKey
    \/ oid = OIDSealedKey
    \/ oid = OIDOldLoadableKey

(***************************************************************************)
(* Parse (part_001:181-283): [err, nilkey, key].                           *)
(***************************************************************************)
ParseFailed(e) == [err |-> e, nilkey |-> TRUE, key |-> ZeroKey]

Parse(b) ==
    LET pem == unwrapPEM(b) IN
    IF pem.err # "" THEN ParseFailed(pem.err)
    ELSE
    LET s == ReadASN1(pem.val, "SEQUENCE") IN
    IF ~s.ok THEN ParseFailed("no sequence")
    ELSE
    LET oid == ReadASN1ObjectIdentifier(s.node.kids) IN
    IF ~oid.ok THEN ParseFailed("no contentinfo oid")
    ELSE IF ~KnownKeyType(oid.val) THEN ParseFailed("unknown key type")
    ELSE
    LET emptyAuth == ReadOptionalASN1(oid.rest, "CTX0") IN
    IF ~emptyAuth.ok THEN ParseFailed("should have emptyAuth, failed reading")
    ELSE
    LET auth == ReadASN1Boolean(emptyAuth.node.kids) IN
    IF emptyAuth.present /\ ~auth.ok THEN ParseFailed("no emptyAuth bool")
    ELSE
    LET policy == parseTPMPolicy(emptyAuth.rest) IN
    IF policy.err # "" THEN ParseFailed("failed reading TPMPolicy")
    ELSE
    LET sSecret == ReadOptionalASN1(policy.rest, "CTX2") IN
    IF ~sSecret.ok THEN ParseFailed("should have secret, failed reading")
    ELSE
    LET secret == ReadASN1(sSecret.node.kids, "OCTET") IN
    IF sSecret.present /\ ~secret.ok THEN ParseFailed("could not parse secret")
    ELSE
    LET authPolicy == parseTPMAuthPolicy(sSecret.rest) IN
    IF authPolicy.err # "" THEN ParseFailed("failed reading TPMAuthPolicy")
    ELSE
    LET parent == ReadASN1Integer(authPolicy.rest) IN
    IF ~parent.ok THEN ParseFailed("failed reading parent")
    ELSE
    LET pubkey == ReadASN1(parent.rest, "OCTET") IN
    IF ~pubkey.ok THEN ParseFailed("could not parse pubkey")
    ELSE
    LET privkey == ReadASN1(pubkey.rest, "OCTET") IN
    IF ~privkey.ok THEN ParseFailed("could not parse privkey")
    ELSE
    [err |-> "", nilkey |-> FALSE,
     key |-> [ZeroKey EXCEPT
                !.keytype = oid.val,
                !.emptyAuth = emptyAuth.present /\ auth.val,
                !.policy = policy.val,
                !.secret = IF sSecret.present THEN secret.node.prim ELSE <<>>,
                !.authPolicy = authPolicy.val,
                !.Parent = parent.val,
                !.Pubkey = pubkey.node.prim,
                !.Privkey = privkey.node.prim]]

(***************************************************************************)
(* Writers of the wire format                                              *)
(*   TPMKey ::= SEQUENCE { type, emptyAuth [0], policy [1], secret [2],    *)
(*                         authPolicy [3], parent, pubkey, privkey }       *)
(* as the grammar in the decoder's comments gives it.                      *)
(***************************************************************************)
WirePolicy(p) ==
    Cons("SEQUENCE",
         <<Cons("CTX0", <<Prim("INTEGER", <<p.commandCode>>)>>),
           Cons("CTX1", <<Prim("OCTET", p.commandPolicy)>>)>>)

WirePolicies(ps) ==
    Cons("CTX1", <<Cons("SEQUENCE", [i \in 1..Len(ps) |-> WirePolicy(ps[i])])>>)

WireAuthPolicy(hasName, name, hasPolicy, policy) ==
    Cons("SEQUENCE",
         (IF hasName THEN <<Cons("CTX0", <<Prim("UTF8", name)>>)>> ELSE <<>>)
         \o (IF hasPolicy THEN <<WirePolicies(policy)>> ELSE <<>>))

WireBool(b) == Prim("BOOLEAN", <<IF b THEN 255 ELSE 0>>)

Armor(label, body) == [armored |-> TRUE, label |-> label, body |-> body]

(***************************************************************************)
(* Encode / TPMKey.Bytes (part_000:85-91 calls Encode, which is not among  *)
(* the sources): the structural inverse of the decoder over the fields the *)
(* entity holds.  The entity has no presence bits, so an optional field is *)
(* written when it holds something.                                        *)
(***************************************************************************)
Encode(k) ==
    Armor(PEMType,
      <<Cons("SEQUENCE",
          <<Prim("OID", k.keytype)>>
          \o (IF k.emptyAuth THEN <<Cons("CTX0", <<WireBool(TRUE)>>)>> ELSE <<>>)
          \o (IF Len(k.policy) > 0 THEN <<WirePolicies(k.policy)>> ELSE <<>>)
          \o (IF Len(k.secret) > 0
              THEN <<Cons("CTX2", <<Prim("OCTET", k.secret)>>)>> ELSE <<>>)
          \o (IF Len(k.authPolicy) > 0
              THEN <<Cons("CTX3", <<Cons("SEQUENCE",
                     [i \in 1..Len(k.authPolicy) |->
                        WireAuthPolicy(Len(k.authPolicy[i].name) > 0,
                                       k.authPolicy[i].name, TRUE,
                                       k.authPolicy[i].policy)])>>)>>
              ELSE <<>>)
          \o <<Prim("INTEGER", <<k.Parent>>),
               Prim("OCTET", k.Pubkey),
               Prim("OCTET", k.Privkey)>>)>>)

Bytes(k) == Encode(k)

(***************************************************************************)
(* TPM constants the sources name (go-tpm's values).                       *)
(***************************************************************************)
TPMRHOwner == 1073741825   \* 0x40000001
TPMAlgRSA == 1
TPMAlgKeyedHash == 8
TPMAlgECC == 35
TPMECCNistP224 == 2
TPMECCNistP256 == 3
TPMECCNistP384 == 4
TPMECCNistP521 == 5

(***************************************************************************)
(* A marshalled public area, reduced to what the sources read from it:     *)
(*   <<type, attributes, detail, u1, u2, u3, u4>>                          *)
(* attributes holds the signEncrypt bit (1) and the decrypt bit (2);       *)
(* detail is the curve identifier (ECC) or the exponent (RSA); the unique  *)
(* field is X = <<u1, u2>>, Y = <<u3, u4>> (ECC) or the modulus (RSA).     *)
(***************************************************************************)
AttrSignEncrypt == 1
AttrDecrypt == 2
PubAreaLen == 7

PubArea(type, attrs, detail, u) == <<type, attrs, detail>> \o u

SamplePub == PubArea(TPMAlgECC, AttrSignEncrypt, TPMECCNistP256, <<0, 7, 1, 2>>)
SamplePriv == <<115, 111>>

(***************************************************************************)
(* The files the decoder is given: every combination of the optional       *)
(* fields, plus a few broken files.                                        *)
(***************************************************************************)
SeqsUpTo(S, n) == UNION {[1..k -> S] : k \in 0..n}

PolicyA == [commandCode |-> 1, commandPolicy |-> <<10>>]
PolicyB == [commandCode |-> 2, commandPolicy |-> <<>>]

GenPolicies ==
    {[kind |-> "absent", items |-> <<>>], [kind |-> "truncated", items |-> <<>>]}
    \cup {[kind |-> "present", items |-> ps] :
            ps \in SeqsUpTo({PolicyA, PolicyB}, MaxPolicies)}

GenAuthEntries ==
    {[hasName |-> n[1], name |-> n[2], hasPolicy |-> TRUE, policy |-> <<PolicyA>>] :
        n \in {<<FALSE, <<>>>>, <<TRUE, <<97>>>>, <<TRUE, <<255>>>>}}
    \cup {[hasName |-> FALSE, name |-> <<>>, hasPolicy |-> TRUE, policy |-> ps] :
            ps \in SeqsUpTo({PolicyB}, MaxPolicies)}
    \cup {[hasName |-> FALSE, name |-> <<>>, hasPolicy |-> FALSE, policy |-> <<>>]}

GenAuthPolicies ==
    {[present |-> FALSE, items |-> <<>>]}
    \cup {[present |-> TRUE, items |-> es] :
            es \in SeqsUpTo(GenAuthEntries, MaxAuthPolicies)}

FieldGens ==
    [armored : {TRUE}, label : {PEMType}, shape : {"ok"},
     oid : {OIDLoadableKey},
     ea : {"absent", "true", "false"},
     pol : GenPolicies,
     sec : {[present |-> FALSE, val |-> <<>>], [present |-> TRUE, val |-> <<9>>]},
     ap : GenAuthPolicies,
     trail : {"none"}]

OidGens ==
    [armored : {TRUE}, label : {PEMType}, shape : {"ok"},
     oid : RecognizedOIDs \cup {OIDUnknown},
     ea : {"absent", "true", "false"},
     pol : {[kind |-> "absent", items |-> <<>>],
            [kind |-> "present", items |-> <<PolicyA>>]},
     sec : {[present |-> FALSE, val |-> <<>>], [present |-> TRUE, val |-> <<9>>]},
     ap : {[present |-> FALSE, items |-> <<>>]},
     trail : {"none", "inside"}]

BaseGen ==
    [armored |-> TRUE, label |-> PEMType, shape |-> "ok", oid |-> OIDLoadableKey,
     ea |-> "true", pol |-> [kind |-> "present", items |-> <<PolicyA>>],
     sec |-> [present |-> TRUE, val |-> <<9>>],
     ap |-> [present |-> FALSE, items |-> <<>>], trail |-> "none"]

BrokenGens ==
    {[BaseGen EXCEPT !.armored = FALSE], [BaseGen EXCEPT !.label = "PRIVATE KEY"],
     [BaseGen EXCEPT !.ea = "bad"], [BaseGen EXCEPT !.trail = "after"],
     [BaseGen EXCEPT !.oid = <<2>>], [BaseGen EXCEPT !.sec = [present |-> TRUE, val |-> <<>>]]}
    \cup {[BaseGen EXCEPT !.shape = sh, !.oid = o] :
            sh \in {"noseq", "noparent", "nopub", "nopriv", "secret-int"},
            o \in {OIDLoadableKey, OIDUnknown}}

Gens == FieldGens \cup OidGens \cup BrokenGens

GenFields(g) ==
    <<Prim("OID", g.oid)>>
    \o (CASE g.ea = "absent" -> <<>>
          [] g.ea = "true" -> <<Cons("CTX0", <<WireBool(TRUE)>>)>>
          [] g.ea = "false" -> <<Cons("CTX0", <<WireBool(FALSE)>>)>>
          [] OTHER -> <<Cons("CTX0", <<Prim("BOOLEAN", <<1>>)>>)>>)
    \o (CASE g.pol.kind = "absent" -> <<>>
          [] g.pol.kind = "truncated" -> <<Truncated("CTX1")>>
          [] OTHER -> <<WirePolicies(g.pol.items)>>)
    \o (IF ~g.sec.present THEN <<>>
        ELSE IF g.shape = "secret-int"
        THEN <<Cons("CTX2", <<Prim("INTEGER", <<9>>)>>)>>
        ELSE <<Cons("CTX2", <<Prim("OCTET", g.sec.val)>>)>>)
    \o (IF g.ap.present
        THEN <<Cons("CTX3", <<Cons("SEQUENCE",
                 [i \in 1..Len(g.ap.items) |->
                    WireAuthPolicy(g.ap.items[i].hasName, g.ap.items[i].name,
                                   g.ap.items[i].hasPolicy,
                                   g.ap.items[i].policy)])>>)>>
        ELSE <<>>)
    \o (IF g.shape = "noparent" THEN <<>> ELSE <<Prim("INTEGER", <<TPMRHOwner>>)>>)
    \o (IF g.shape = "nopub" THEN <<>> ELSE <<Prim("OCTET", SamplePub)>>)
    \o (IF g.shape = "nopriv" THEN <<>> ELSE <<Prim("OCTET", SamplePriv)>>)
    \o (IF g.trail = "inside" THEN <<Prim("OCTET", <<0>>)>> ELSE <<>>)

GenInput(g) ==
    [armored |-> g.armored, label |-> g.label,
     body |-> (IF g.shape = "noseq" THEN GenFields(g)
               ELSE <<Cons("SEQUENCE", GenFields(g))>>)
              \o (IF g.trail = "after" THEN <<Prim("OCTET", <<0>>)>> ELSE <<>>)]

(***************************************************************************)
(* Idle values of the variables a scenario does not use.                   *)
(***************************************************************************)
NoGen == [BaseGen EXCEPT !.shape = "none"]
NoInput == [armored |-> FALSE, label |-> "", body |-> <<>>]
NoRes == [err |-> "not run", nilkey |-> TRUE, key |-> ZeroKey]
NoArgs == [oid |-> <<>>, pubkey |-> <<>>, privkey |-> <<>>, fn |-> <<>>]
NoPub == [outcome |-> "not run", err |-> "", kind |-> "none", nilkey |-> TRUE,
          curve |-> "", X |-> 0, Y |-> 0, N |-> 0, E |-> 0]
NoVin == [alg |-> "", hashed |-> 0,
          sig |-> [wellFormed |-> FALSE, by |-> <<>>, alg |-> "", over |-> 0]]
NoVres == [outcome |-> "not run", ok |-> FALSE, err |-> ""]
NoSres == [outcome |-> "not run", handle |-> FALSE, err |-> ""]

(***************************************************************************)
(* The decoding scenario: a file is parsed, and a parsed key is encoded    *)
(* again (TestParse, part_000:21-54 and keyfile.go:169-207).               *)
(***************************************************************************)
InitCodec ==
    /\ gen \in Gens
    /\ input = GenInput(gen)
    /\ pc = "input"
    /\ res = NoRes
    /\ out = NoInput
    /\ args = NoArgs
    /\ key = ZeroKey
    /\ pubres = NoPub
    /\ vin = NoVin
    /\ vres = NoVres
    /\ sres = NoSres
    /\ tpmCalls = 0
    /\ authCalls = 0

Decode ==
    /\ pc = "input"
    /\ res' = Parse(input)
    /\ pc' = IF res'.err = "" THEN "decoded" ELSE "failed"
    /\ UNCHANGED <<gen, input, out, args, key, pubres, vin, vres, sres,
                   tpmCalls, authCalls>>

Marshal ==
    /\ pc = "decoded"
    /\ out' = Encode(res.key)
    /\ pc' = "encoded"
    /\ UNCHANGED <<gen, input, res, args, key, pubres, vin, vres, sres,
                   tpmCalls, authCalls>>

NextCodec == Decode \/ Marshal

SpecCodec == InitCodec /\ [][NextCodec]_vars

(***************************************************************************)
(* Claims about the decoder, checked under SpecCodec.                      *)
(***************************************************************************)
Parsed == pc \in {"decoded", "encoded"}

\* the first element of the outer sequence is an object identifier
HasOuterOID ==
    /\ input.armored /\ input.label = PEMType
    /\ Len(input.body) > 0 /\ input.body[1].tag = "SEQUENCE"
    /\ Len(input.body[1].kids) > 0
    /\ input.body[1].kids[1].tag = "OID"
    /\ Len(input.body[1].kids[1].prim) >= 2

WireOID == input.body[1].kids[1].prim

\* the auth-policies the file carries, in wire order
WireAuthPolicies ==
    [i \in 1..Len(gen.ap.items) |->
        [name |-> gen.ap.items[i].name, policy |-> gen.ap.items[i].policy]]

AuthEntriesWellFormed ==
    \A i \in 1..Len(gen.ap.items) :
        /\ gen.ap.items[i].hasPolicy
        /\ Len(gen.ap.items[i].policy) > 0
        /\ Utf8Valid(gen.ap.items[i].name)

SomeAuthEntryEmpty ==
    /\ gen.ap.present
    /\ \E i \in 1..Len(gen.ap.items) :
          ~gen.ap.items[i].hasPolicy \/ Len(gen.ap.items[i].policy) = 0

\* C1: for every input Parse accepts, encoding the decoded key again yields
\* exactly the input bytes.
C1_RoundTrip == pc = "encoded" => out = input

\* C3: a successful decode leaves in the key's auth-policy field the
\* auth-policies the file carries, in wire order (none when the [3] wrapper
\* is absent).
C3_AuthPoliciesDecoded ==
    (Parsed /\ AuthEntriesWellFormed) =>
        res.key.authPolicy = (IF gen.ap.present THEN WireAuthPolicies ELSE <<>>)

\* C4: when the [1] wrapper is present, the decoded policy list holds one
\* Policy per element of the wrapped sequence, in wire order.
C4_OnePolicyPerElement ==
    (Parsed /\ gen.pol.kind = "present") => res.key.policy = gen.pol.items

\* C7: an outer object identifier that is none of the four recognized ones
\* makes Parse fail with "unknown key type" and return no key; a recognized
\* one is never rejected as unknown, and a successful decode stores exactly
\* the identifier read.
C7_KeyTypeChecked ==
    (pc # "input" /\ HasOuterOID) =>
        /\ WireOID \notin RecognizedOIDs =>
              (res.err = "unknown key type" /\ res.nilkey)
        /\ WireOID \in RecognizedOIDs => res.err # "unknown key type"
        /\ res.err = "" =>
              (WireOID \in RecognizedOIDs /\ res.key.keytype = WireOID)

C7_Witness ==
    /\ pc = "failed" /\ HasOuterOID /\ WireOID = OIDUnknown
    /\ res.err = "unknown key type" /\ res.nilkey

\* C8: Parse fails whenever some auth-policy entry of the file carries zero
\* policies (its [1] wrapper absent, or present around an empty sequence).
C8_EmptyAuthPolicyRejected ==
    (pc # "input" /\ gen.shape = "ok" /\ SomeAuthEntryEmpty) => res.err # ""

(***************************************************************************)
(* What the decoder does where it departs from the claims above.           *)
(***************************************************************************)
WithoutAuthPolicy(g) == [g EXCEPT !.ap = [present |-> FALSE, items |-> <<>>]]

\* every successful decode leaves the auth-policy list empty
ParseReturnsNoAuthPolicies == Parsed => res.key.authPolicy = <<>>

\* a file with an authPolicy [3] element decodes to the same key as the
\* file without it
ParseForgetsAuthPolicies ==
    (Parsed /\ gen.ap.present) =>
        /\ input # GenInput(WithoutAuthPolicy(gen))
        /\ res = Parse(GenInput(WithoutAuthPolicy(gen)))

\* of a policy [1] sequence the first element is decoded, and only it
ParseKeepsFirstPolicyOnly ==
    (Parsed /\ gen.pol.kind = "present") =>
        res.key.policy = IF Len(gen.pol.items) = 0 THEN <<>>
                         ELSE <<gen.pol.items[1]>>

\* an auth-policy entry without policies is rejected in first position
FirstEmptyAuthEntryRejected ==
    (pc # "input" /\ gen.shape = "ok" /\ gen.ap.present /\ Len(gen.ap.items) > 0
     /\ (~gen.ap.items[1].hasPolicy \/ Len(gen.ap.items[1].policy) = 0)) =>
        res.err # ""


(***************************************************************************)
(* Key construction (part_000:40-63).  A TPMKeyOption is a closure that    *)
(* writes one field of the key; the With... constructors are not among the *)
(* sources and are taken as setting exactly the field they name.           *)
(***************************************************************************)
Option(field, seq, num, flag) ==
    [set |-> field, seq |-> seq, num |-> num, flag |-> flag]

WithKeytype(oid) == Option("keytype", oid, 0, FALSE)
WithUserAuth(a) == Option("userAuth", a, 0, FALSE)
WithParent(h) == Option("Parent", <<>>, h, FALSE)
WithPubkey(b) == Option("Pubkey", b, 0, FALSE)
WithPrivkey(b) == Option("Privkey", b, 0, FALSE)
WithDescription(d) == Option("description", d, 0, FALSE)
WithEmptyAuth(b) == Option("emptyAuth", <<>>, 0, b)

\* the value an option writes into its field
OptionValue(f) ==
    CASE f.set = "Parent" -> f.num
      [] f.set = "emptyAuth" -> f.flag
      [] OTHER -> f.seq

\* f(t): the closure writes its field
ApplyOption(t, f) ==
    CASE f.set = "Parent" -> [t EXCEPT !.Parent = f.num]
      [] f.set = "emptyAuth" -> [t EXCEPT !.emptyAuth = f.flag]
      [] OTHER -> [t EXCEPT ![f.set] = f.seq]

RECURSIVE AddOptions(_, _)
AddOptions(t, fn) ==
    IF fn = <<>> THEN t
    ELSE AddOptions(ApplyOption(t, Head(fn)), Tail(fn))

Defaults(oid, pubkey, privkey) ==
    <<WithKeytype(oid), WithUserAuth(<<>>), WithParent(TPMRHOwner),
      WithPubkey(pubkey), WithPrivkey(privkey)>>

NewTPMKeyDefaultsLast(oid, pubkey, privkey, fn) ==
    AddOptions(AddOptions(ZeroKey, fn), Defaults(oid, pubkey, privkey))

NewTPMKey(oid, pubkey, privkey, fn) ==
    AddOptions(AddOptions(ZeroKey, Defaults(oid, pubkey, privkey)), fn)

(***************************************************************************)
(* Accessors over the public area.  Contents() is go-tpm's unmarshalling   *)
(* of the TPM2BPublic: it fails on a blob that is not a public area.       *)
(***************************************************************************)
Contents(blob) ==
    IF Len(blob) = PubAreaLen
    THEN [ok |-> TRUE, Type |-> blob[1], attrs |-> blob[2], detail |-> blob[3],
          X |-> SubSeq(blob, 4, 5), Y |-> SubSeq(blob, 6, 7),
          modulus |-> SubSeq(blob, 4, 7)]
    ELSE [ok |-> FALSE, Type |-> 0, attrs |-> 0, detail |-> 0,
          X |-> <<>>, Y |-> <<>>, modulus |-> <<>>]

\* HasSinger (part_000:65-71): panics when the public area does not parse
HasSingerReadsDecrypt(t) ==
    LET pub == Contents(t.Pubkey)
    IN  [panic |-> ~pub.ok, val |-> pub.ok /\ (pub.attrs \div AttrDecrypt) % 2 = 1]

HasSinger(t) ==
    LET pub == Contents(t.Pubkey)
    IN  [panic |-> ~pub.ok, val |-> pub.ok /\ pub.attrs % 2 = AttrSignEncrypt]

\* HasAuth (part_000:73-75)
HasAuth(t) == ~t.emptyAuth

\* KeyAlgo (part_000:77-83)
KeyAlgo(t) ==
    LET pub == Contents(t.Pubkey)
    IN  [panic |-> ~pub.ok, val |-> pub.Type]

(***************************************************************************)
(* Public-key reconstruction (part_000:93-157, keyfile.go:73-137).         *)
(***************************************************************************)
\* big.Int.SetBytes: the bytes as an unsigned big-endian integer
RECURSIVE SetBytes(_)
SetBytes(bs) ==
    IF bs = <<>> THEN 0
    ELSE SetBytes(SubSeq(bs, 1, Len(bs) - 1)) * 256 + bs[Len(bs)]

PubReturn(e, kind, nilkey, curve, x, y, n, exp) ==
    [outcome |-> "return", err |-> e, kind |-> kind, nilkey |-> nilkey,
     curve |-> curve, X |-> x, Y |-> y, N |-> n, E |-> exp]
PubPanic == [NoPub EXCEPT !.outcome = "panic"]

\* the switch over eccdeets.CurveID has no default: for any other curve
\* ecdsaKey stays nil and is returned with a nil error
ecdsaPubKey(t) ==
    LET pub == Contents(t.Pubkey)
        x == SetBytes(pub.X)
        y == SetBytes(pub.Y)
    IN  IF ~pub.ok
        THEN PubReturn("can't serialize public key contents", "none", TRUE, "", 0, 0, 0, 0)
        ELSE CASE pub.detail = TPMECCNistP256 -> PubReturn("", "ecdsa", FALSE, "P-256", x, y, 0, 0)
               [] pub.detail = TPMECCNistP384 -> PubReturn("", "ecdsa", FALSE, "P-384", x, y, 0, 0)
               [] pub.detail = TPMECCNistP521 -> PubReturn("", "ecdsa", FALSE, "P-521", x, y, 0, 0)
               [] OTHER -> PubReturn("", "ecdsa", TRUE, "", 0, 0, 0, 0)

\* tpm2.RSAPub: an exponent of 0 stands for 65537
DefaultRSAExponent == 65537

rsaPubKey(t) ==
    LET pub == Contents(t.Pubkey)
    IN  IF ~pub.ok
        THEN PubReturn("can't serialize public key contents", "none", TRUE, "", 0, 0, 0, 0)
        ELSE PubReturn("", "rsa", FALSE, "", 0, 0, SetBytes(pub.modulus),
                       IF pub.detail = 0 THEN DefaultRSAExponent ELSE pub.detail)

PublicKey(t) ==
    LET algo == KeyAlgo(t)
    IN  IF algo.panic THEN PubPanic
        ELSE CASE algo.val = TPMAlgECC -> ecdsaPubKey(t)
               [] algo.val = TPMAlgRSA -> rsaPubKey(t)
               [] OTHER -> PubReturn("no public key", "none", TRUE, "", 0, 0, 0, 0)

(***************************************************************************)
(* Signatures.  crypto/ecdsa and crypto/rsa are taken as ideal: a          *)
(* signature is well formed or not, was made by the private half of one    *)
(* public key, over one digest (and, for PKCS#1 v1.5, names one hash).     *)
(***************************************************************************)
PubId(p) == [kind |-> p.kind, curve |-> p.curve, X |-> p.X, Y |-> p.Y,
             N |-> p.N, E |-> p.E]

ecdsaVerifyASN1(pk, hashed, sig) ==
    sig.wellFormed /\ sig.by = PubId(pk) /\ sig.over = hashed

rsaVerifyPKCS1v15(pk, alg, hashed, sig) ==
    sig.wellFormed /\ sig.by = PubId(pk) /\ sig.over = hashed /\ sig.alg = alg

VerifyReturn(ok, e) == [outcome |-> "return", ok |-> ok, err |-> e]
VerifyPanic == [outcome |-> "panic", ok |-> FALSE, err |-> ""]

(***************************************************************************)
(* Verify (part_000:174-190): the set of outcomes a build can produce.     *)
(* A nil *ecdsa.PublicKey (unsupported curve) matches the first case of    *)
(* the type switch; ecdsa.VerifyASN1 then dereferences it, after or before *)
(* it has rejected a signature that does not parse, depending on the Go    *)
(* release.                                                                *)
(***************************************************************************)
VerifyIgnoringEcdsaResult(t, alg, hashed, sig) ==
    LET pubkey == PublicKey(t) IN
    IF pubkey.outcome = "panic" THEN {VerifyPanic}
    ELSE IF pubkey.err # "" THEN {VerifyReturn(FALSE, "failed getting pubkey")}
    ELSE IF pubkey.kind = "ecdsa" THEN
        IF pubkey.nilkey THEN {VerifyPanic} ELSE {VerifyReturn(TRUE, "")}
    ELSE IF pubkey.kind = "rsa" THEN
        IF rsaVerifyPKCS1v15(pubkey, alg, hashed, sig)
        THEN {VerifyReturn(TRUE, "")}
        ELSE {VerifyReturn(FALSE, "signature verification failed")}
    ELSE {VerifyReturn(TRUE, "")}

Verify(t, alg, hashed, sig) ==
    LET pubkey == PublicKey(t) IN
    IF pubkey.outcome = "panic" THEN {VerifyPanic}
    ELSE IF pubkey.err # "" THEN {VerifyReturn(FALSE, "failed getting pubkey")}
    ELSE IF pubkey.kind = "ecdsa" THEN
        IF pubkey.nilkey
        THEN {VerifyPanic}
             \cup (IF sig.wellFormed THEN {}
                   ELSE {VerifyReturn(FALSE, "invalid signature")})
        ELSE IF ecdsaVerifyASN1(pubkey, hashed, sig)
        THEN {VerifyReturn(TRUE, "")}
        ELSE {VerifyReturn(FALSE, "invalid signature")}
    ELSE IF pubkey.kind = "rsa" THEN
        IF rsaVerifyPKCS1v15(pubkey, alg, hashed, sig)
        THEN {VerifyReturn(TRUE, "")}
        ELSE {VerifyReturn(FALSE, "signature verification failed")}
    ELSE {VerifyReturn(TRUE, "")}

(***************************************************************************)
(* Signer (part_000:161-172).                                              *)
(***************************************************************************)
Signer(t) ==
    LET has == HasSinger(t) IN
    IF has.panic THEN [outcome |-> "panic", handle |-> FALSE, err |-> ""]
    ELSE IF ~has.val
    THEN [outcome |-> "return", handle |-> FALSE,
          err |-> "does not have sign/encrypt attribute set"]
    ELSE [outcome |-> "return", handle |-> TRUE, err |-> ""]

(***************************************************************************)
(* The key scenario: a key is built with NewTPMKey and then used once:     *)
(* its public key is reconstructed, a signature is verified, a signer is   *)
(* requested (and used), or it is encoded and decoded again                *)
(* (TestEncodeDecode, part_000:62-107).                                    *)
(***************************************************************************)
TPMRHEndorsement == 1073741835   \* 0x4000000B
DescTest == <<116, 101, 115, 116>>

CallerOptions ==
    {WithKeytype(OIDImportbleKey), WithKeytype(OIDSealedKey),
     WithParent(TPMRHEndorsement), WithDescription(DescTest),
     WithEmptyAuth(TRUE), WithUserAuth(<<1>>)}

PubAreas ==
    {PubArea(TPMAlgECC, a, c, <<0, 7, 1, 2>>) :
        a \in {AttrSignEncrypt, AttrDecrypt},
        c \in {TPMECCNistP224, TPMECCNistP256, TPMECCNistP384, TPMECCNistP521}}
    \cup {PubArea(TPMAlgRSA, a, e, <<1, 0, 0, 1>>) :
            a \in {AttrSignEncrypt, AttrDecrypt}, e \in {0, 3}}
    \cup {PubArea(TPMAlgKeyedHash, 0, 0, <<0, 0, 0, 0>>), <<>>}

OtherPubId == PubId(PubReturn("", "ecdsa", FALSE, "P-256", 9, 9, 0, 0))

Signatures(t) ==
    [wellFormed : BOOLEAN, by : {PubId(PublicKey(t)), OtherPubId},
     alg : {"SHA256", "SHA1"}, over : {1, 2}]

InitKey ==
    /\ pc = "new"
    /\ gen = NoGen
    /\ input = NoInput
    /\ res = NoRes
    /\ out = NoInput
    /\ args = NoArgs
    /\ key = ZeroKey
    /\ pubres = NoPub
    /\ vin = NoVin
    /\ vres = NoVres
    /\ sres = NoSres
    /\ tpmCalls = 0
    /\ authCalls = 0

NewKey ==
    /\ pc = "new"
    /\ \E oid \in {OIDLoadableKey, OIDSealedKey}, pubkey \in PubAreas,
          fn \in SeqsUpTo(CallerOptions, MaxOptions) :
          /\ args' = [oid |-> oid, pubkey |-> pubkey, privkey |-> SamplePriv,
                      fn |-> fn]
          /\ key' = NewTPMKey(oid, pubkey, SamplePriv, fn)
    /\ pc' = "built"
    /\ UNCHANGED <<gen, input, res, out, pubres, vin, vres, sres,
                   tpmCalls, authCalls>>

GetPublicKey ==
    /\ pc = "built"
    /\ pubres' = PublicKey(key)
    /\ pc' = "pubkey"
    /\ UNCHANGED <<gen, input, res, out, args, key, vin, vres, sres,
                   tpmCalls, authCalls>>

CallVerify ==
    /\ pc = "built"
    /\ \E sig \in Signatures(key) :
          /\ vin' = [alg |-> "SHA256", hashed |-> 1, sig |-> sig]
          /\ vres' \in Verify(key, "SHA256", 1, sig)
    /\ pc' = "verified"
    /\ UNCHANGED <<gen, input, res, out, args, key, pubres, sres,
                   tpmCalls, authCalls>>

CallSigner ==
    /\ pc = "built"
    /\ sres' = Signer(key)
    /\ pc' = "signer"
    /\ UNCHANGED <<gen, input, res, out, args, key, pubres, vin, vres,
                   tpmCalls, authCalls>>

\* Sign on the handle Signer returned (NewTPMKeySigner is not among the
\* sources): one TPM sign command, the owner auth asked for once and the
\* key's auth once when the key has one.
Sign ==
    /\ pc = "signer"
    /\ sres.handle
    /\ tpmCalls < MaxSignCalls
    /\ tpmCalls' = tpmCalls + 1
    /\ authCalls' = authCalls + 1 + (IF HasAuth(key) THEN 1 ELSE 0)
    /\ UNCHANGED <<pc, gen, input, res, out, args, key, pubres, vin, vres, sres>>

KeyBytes ==
    /\ pc = "built"
    /\ input' = Bytes(key)
    /\ pc' = "input"
    /\ UNCHANGED <<gen, res, out, args, key, pubres, vin, vres, sres,
                   tpmCalls, authCalls>>

NextKey ==
    \/ NewKey
    \/ GetPublicKey
    \/ CallVerify
    \/ CallSigner
    \/ Sign
    \/ KeyBytes
    \/ Decode
    \/ Marshal

SpecKey == InitKey /\ [][NextKey]_vars

(***************************************************************************)
(* Claims about the key entity, checked under SpecKey.                     *)
(***************************************************************************)
Redecoded == pc \in {"decoded", "failed", "encoded"}

\* C2: for a constructed key k with a valid public area, Parse(k.Bytes())
\* succeeds and returns a key with k's key-type, empty-auth, description,
\* parent, public-area blob and private-area blob.
C2_EncodeDecodeKeepsFields ==
    (Redecoded /\ Contents(key.Pubkey).ok) =>
        /\ res.err = "" /\ ~res.nilkey
        /\ res.key.keytype = key.keytype
        /\ res.key.emptyAuth = key.emptyAuth
        /\ res.key.description = key.description
        /\ res.key.Parent = key.Parent
        /\ res.key.Pubkey = key.Pubkey
        /\ res.key.Privkey = key.Privkey

SupportedCurves == {TPMECCNistP256, TPMECCNistP384, TPMECCNistP521}

CurveName(c) ==
    CASE c = TPMECCNistP256 -> "P-256"
      [] c = TPMECCNistP384 -> "P-384"
      [] c = TPMECCNistP521 -> "P-521"
      [] OTHER -> ""

\* C5: for an elliptic-curve public area, PublicKey returns the matching
\* named curve with X and Y read as unsigned big-endian integers when the
\* curve is P-256, P-384 or P-521, and fails with an error, returning no
\* key, for any other curve.
C5_CurveSupport ==
    LET pub == Contents(key.Pubkey) IN
    (pc = "pubkey" /\ pub.ok /\ pub.Type = TPMAlgECC) =>
        IF pub.detail \in SupportedCurves
        THEN /\ pubres.outcome = "return" /\ pubres.err = ""
             /\ pubres.kind = "ecdsa" /\ ~pubres.nilkey
             /\ pubres.curve = CurveName(pub.detail)
             /\ pubres.X = pub.X[1] * 256 + pub.X[2]
             /\ pubres.Y = pub.Y[1] * 256 + pub.Y[2]
        ELSE pubres.outcome = "return" /\ pubres.err # "" /\ pubres.nilkey

\* the key has a public key to verify under
HasPublicKey(pk) == pk.outcome = "return" /\ pk.err = "" /\ ~pk.nilkey

\* the ECDSA / RSA PKCS#1 v1.5 verification of vin under pk succeeds
UnderlyingVerifies(pk) ==
    /\ HasPublicKey(pk)
    /\ \/ pk.kind = "ecdsa" /\ ecdsaVerifyASN1(pk, vin.hashed, vin.sig)
       \/ pk.kind = "rsa" /\ rsaVerifyPKCS1v15(pk, vin.alg, vin.hashed, vin.sig)

Writers(f) == {i \in 1..Len(args.fn) : args.fn[i].set = f}
LastWriter(f) == CHOOSE i \in Writers(f) : \A j \in Writers(f) : j <= i
DefaultValue(f) ==
    CASE f = "keytype" -> args.oid
      [] f = "Parent" -> TPMRHOwner
      [] f = "Pubkey" -> args.pubkey
      [] f = "Privkey" -> args.privkey
      [] OTHER -> ZeroKey[f]

\* C9: after NewTPMKey every field holds the value written by the last
\* caller option that sets it, and the default (given key-type, no user
\* auth, owner hierarchy as parent, given blobs) when no caller option does.
C9_LastOptionWins ==
    pc # "new" =>
        \A f \in DOMAIN key :
            key[f] = IF Writers(f) # {} THEN OptionValue(args.fn[LastWriter(f)])
                     ELSE DefaultValue(f)

C9_Witness ==
    /\ pc = "built"
    /\ args.oid = OIDLoadableKey
    /\ args.fn = <<WithKeytype(OIDImportbleKey), WithKeytype(OIDSealedKey)>>
    /\ key.keytype = OIDSealedKey
    /\ key.Parent = TPMRHOwner

HasSignAttribute == 
    LET pub == Contents(key.Pubkey) IN pub.ok /\ pub.attrs % 2 = 1

\* C10: when the public area lacks the sign/encrypt attribute Signer returns
\* an error and no handle, and neither the TPM transport nor an auth
\* provider is ever invoked; a handle is returned only with the attribute
\* set.
C10_SignerNeedsSignAttribute ==
    sres.outcome = "return" =>
        /\ ~HasSignAttribute =>
              (~sres.handle /\ sres.err # "" /\ tpmCalls = 0 /\ authCalls = 0)
        /\ sres.handle => HasSignAttribute

C10_Witness ==
    /\ pc = "signer" /\ sres.outcome = "return"
    /\ ~HasSignAttribute
    /\ ~sres.handle /\ sres.err = "does not have sign/encrypt attribute set"

(***************************************************************************)
(* What the key entity does where it departs from the claims above.        *)
(***************************************************************************)
\* Bytes then Parse keeps every field but the description
EncodeDecodeKeepsWireFields ==
    Redecoded =>
        /\ res.err = "" /\ ~res.nilkey
        /\ res.key = [key EXCEPT !.description = <<>>, !.userAuth = <<>>]

\* an elliptic-curve key on another curve yields no key and no error
UnsupportedCurveYieldsNilKey ==
    LET pub == Contents(key.Pubkey) IN
    (pc = "pubkey" /\ pub.ok /\ pub.Type = TPMAlgECC
     /\ pub.detail \notin SupportedCurves) =>
        (pubres.outcome = "return" /\ pubres.err = "" /\ pubres.nilkey)

(***************************************************************************)
(* Claims about the empty-auth flag, checked under SpecCodec.              *)
(***************************************************************************)
\* C11: after a successful decode the key's empty-auth flag is false when
\* the [0] element is absent and is the wrapped boolean when it is present
\* (true, or an explicit false), and HasAuth() is the negation of the flag.
C11_EmptyAuthDecoded ==
    Parsed =>
        /\ gen.ea \in {"absent", "true", "false"}
        /\ gen.ea = "absent" => (~res.key.emptyAuth /\ HasAuth(res.key))
        /\ gen.ea = "true" => (res.key.emptyAuth /\ ~HasAuth(res.key))
        /\ gen.ea = "false" => (~res.key.emptyAuth /\ HasAuth(res.key))

C11_Witness ==
    /\ pc = "decoded" /\ gen.ea = "false"
    /\ PeekASN1Tag(Tail(input.body[1].kids), "CTX0")
    /\ ~res.key.emptyAuth /\ HasAuth(res.key)

====
